---- MODULE Spec2Model ----
(***************************************************************************)
(* Model of src/frontend/utils/validators.ts: seven predicates over a     *)
(* value of unknown type, each returning a boolean.  A text is a sequence  *)
(* of one-character strings.  A call is one step of the state machine:     *)
(* Init draws the arguments, the action applies the predicate and records  *)
(* its outcome.  SpecAuth models the AuthProvider of                       *)
(* src/state/AuthContext.tsx, whose calls interleave at their awaits.      *)
(***************************************************************************)
EXTENDS Integers, Sequences, FiniteSets, TLC

VARIABLES
    input,      \* the first argument of the call (a value of unknown type)
    options,    \* the second argument of isValidPassword
    platform,   \* Platform.OS of the host
    urlImpl,    \* which implementation of the global URL class the host has
    dateImpl,   \* how the host's Date parses a day beyond the month's length
    called,     \* the predicate that has been applied, "none" before the call
    via,        \* how it was reached: "direct", or "registry" through Validators
    result,     \* the outcome of the call
    registry,   \* the object Validators: a function for each name
    user,       \* AuthProvider: the user state, <<>> for null
    loading,    \* AuthProvider: the loading state
    error,      \* AuthProvider: the error state, <<>> for null
    authToken,  \* api.ts: the module-level token, <<>> for null
    storage,    \* AsyncStorage: the entry under the user key, <<>> when absent
    pending,    \* AsyncStorage: the operations issued and not yet completed
    calls       \* the signIn, signUp and signOut calls, in the order started

validatorVars ==
    <<input, options, platform, urlImpl, dateImpl, called, via, result, registry>>

authVars == <<user, loading, error, authToken, storage, pending, calls>>

vars == <<validatorVars, authVars>>

----------------------------------------------------------------------------
(* Characters and character classes *)

UpperSeq == <<"A","B","C","D","E","F","G","H","I","J","K","L","M",
              "N","O","P","Q","R","S","T","U","V","W","X","Y","Z">>
LowerSeq == <<"a","b","c","d","e","f","g","h","i","j","k","l","m",
              "n","o","p","q","r","s","t","u","v","w","x","y","z">>
DigitSeq == <<"0","1","2","3","4","5","6","7","8","9">>

Range(f) == {f[i] : i \in DOMAIN f}

UpperCase == Range(UpperSeq)
LowerCase == Range(LowerSeq)
Digit     == Range(DigitSeq)
Alpha     == UpperCase \cup LowerCase

\* What \s matches and String.prototype.trim strips (the ASCII part).
WhiteSpace == {" ", "\t", "\n", "\r", "\f"}

\* parseInt(c, 10) of a one-digit text.
ParseInt(c) == (CHOOSE i \in DOMAIN DigitSeq : DigitSeq[i] = c) - 1

\* The number a run of decimal digits denotes.
RECURSIVE ToNumber(_)
ToNumber(s) ==
    IF s = <<>> THEN 0
    ELSE 10 * ToNumber(SubSeq(s, 1, Len(s) - 1)) + ParseInt(s[Len(s)])

ToLowerChar(c) ==
    IF c \in UpperCase
    THEN LowerSeq[CHOOSE i \in DOMAIN UpperSeq : UpperSeq[i] = c]
    ELSE c

ToLower(s) == [i \in DOMAIN s |-> ToLowerChar(s[i])]

----------------------------------------------------------------------------
(* Values of unknown type.  str is the text itself for a text, and what    *)
(* String(value) gives for any other value.                                *)

Text(s) == [kind |-> "string", str |-> s]

Null      == [kind |-> "null",      str |-> <<"n","u","l","l">>]
Undefined == [kind |-> "undefined", str |-> <<"u","n","d","e","f","i","n","e","d">>]
Number7   == [kind |-> "number",    str |-> <<"7">>]
Number0   == [kind |-> "number",    str |-> <<"0">>]
BoolTrue  == [kind |-> "boolean",   str |-> <<"t","r","u","e">>]
BoolFalse == [kind |-> "boolean",   str |-> <<"f","a","l","s","e">>]
Object    == [kind |-> "object",    str |-> <<"[","o","b","j","e","c","t"," ","O","b","j","e","c","t","]">>]
EmptyList == [kind |-> "array",     str |-> <<>>]
ListOf1   == [kind |-> "array",     str |-> <<"1">>]

NonTextValues ==
    {Null, Undefined, Number7, Number0, BoolTrue, BoolFalse, Object, EmptyList, ListOf1}

\* typeof value
TypeOf(v) ==
    CASE v.kind = "string"    -> "string"
      [] v.kind = "number"    -> "number"
      [] v.kind = "boolean"   -> "boolean"
      [] v.kind = "undefined" -> "undefined"
      [] OTHER                -> "object"

IsText(v) == TypeOf(v) = "string"

----------------------------------------------------------------------------
(* Outcomes of a call *)

Returns(b) == [verdict |-> b, raised |-> FALSE, constructed |-> "none"]
NoResult   == Returns(FALSE)

----------------------------------------------------------------------------
(* String operations *)

RECURSIVE TrimStart(_)
TrimStart(s) ==
    IF s # <<>> /\ s[1] \in WhiteSpace THEN TrimStart(Tail(s)) ELSE s

RECURSIVE TrimEnd(_)
TrimEnd(s) ==
    IF s # <<>> /\ s[Len(s)] \in WhiteSpace
    THEN TrimEnd(SubSeq(s, 1, Len(s) - 1))
    ELSE s

\* String.prototype.trim
Trim(s) == TrimEnd(TrimStart(s))

\* s.replace(/[set]/g, empty) and s.replace(/[set]+/g, empty)
RemoveAll(s, set) == SelectSeq(s, LAMBDA c : c \notin set)

\* /[set]/.test(s)
Contains(s, set) == \E i \in DOMAIN s : s[i] \in set

\* /^[set]+$/.test(s)
AllIn(s, set) == s # <<>> /\ \A i \in DOMAIN s : s[i] \in set

----------------------------------------------------------------------------
(* isNonEmptyString *)

\* A variant that converts the value to text instead of testing its type.
IsNonEmptyStringCoerce(value) ==
    Returns(value.kind \notin {"null", "undefined"} /\ Len(Trim(value.str)) > 0)

\* A variant that tests the length of the text as given, untrimmed.
IsNonEmptyStringNoTrim(value) ==
    Returns(IsText(value) /\ Len(value.str) > 0)

IsNonEmptyString(value) ==
    Returns(IsText(value) /\ Len(Trim(value.str)) > 0)

----------------------------------------------------------------------------
(* isValidEmail *)

\* A character the lexer of TLA+ strings does not take stands under a name.
Backtick == "BACKTICK"

\* The class of the local part: a-z A-Z 0-9 . ! # $ % & apostrophe * + / = ? ^ _
\* backtick { | } space and a final literal hyphen.
EmailLocalClass ==
    Alpha \cup Digit \cup
    {".", "!", "#", "$", "%", "&", "'", "*", "+", "/", "=", "?", "^", "_", Backtick,
     "{", "|", "}", " ", "-"}

\* [a-zA-Z0-9-]
EmailLabelClass == Alpha \cup Digit \cup {"-"}

\* [a-zA-Z]{2,} up to the end of the text
MatchesTld(r) == Len(r) >= 2 /\ \A i \in DOMAIN r : r[i] \in Alpha

\* ([a-zA-Z0-9-]+\.)+ over the whole of r
RECURSIVE MatchesLabels(_)
MatchesLabels(r) ==
    \E j \in 2..Len(r) :
        /\ r[j] = "."
        /\ AllIn(SubSeq(r, 1, j - 1), EmailLabelClass)
        /\ (j = Len(r) \/ MatchesLabels(SubSeq(r, j + 1, Len(r))))

\* emailRegex.test(s)
EmailRegexTest(s) ==
    \E at \in 1..Len(s) :
        /\ s[at] = "@"
        /\ AllIn(SubSeq(s, 1, at - 1), EmailLocalClass)
        /\ \E k \in (at + 1)..Len(s) :
              /\ MatchesLabels(SubSeq(s, at + 1, k))
              /\ MatchesTld(SubSeq(s, k + 1, Len(s)))

\* A variant that matches the text as given, untrimmed.
IsValidEmailNoTrim(email) ==
    IF ~IsText(email) THEN Returns(FALSE)
    ELSE Returns(EmailRegexTest(email.str))

IsValidEmail(email) ==
    IF ~IsText(email) THEN Returns(FALSE)
    ELSE Returns(EmailRegexTest(Trim(email.str)))

----------------------------------------------------------------------------
(* isValidPassword *)

NoOptions    == [kind |-> "absent", minLength |-> 0]
EmptyOptions == [kind |-> "empty",  minLength |-> 0]
MinLength(n) == [kind |-> "given",  minLength |-> n]

DefaultMinLength == 8

\* const { minLength = 8 } = options ?? {}
MinLengthOf(opts) ==
    IF opts.kind = "given" THEN opts.minLength ELSE DefaultMinLength

\* The class specialChar: ! @ # $ % ^ & * ( ) , . ? double-quote : { } | < >
SpecialChar ==
    {"!", "@", "#", "$", "%", "^", "&", "*", "(", ")", ",", ".", "?", "\"",
     ":", "{", "}", "|", "<", ">"}

\* A variant with <= in the length test.
IsValidPasswordTooLong(password, opts) ==
    IF ~IsText(password) THEN Returns(FALSE)
    ELSE IF Len(password.str) <= MinLengthOf(opts) THEN Returns(FALSE)
    ELSE Returns(/\ Contains(password.str, UpperCase)
                 /\ Contains(password.str, LowerCase)
                 /\ Contains(password.str, Digit)
                 /\ Contains(password.str, SpecialChar))

\* A variant that takes a minLength below 1 to switch the policy off.
IsValidPasswordNoPolicy(password, opts) ==
    IF ~IsText(password) THEN Returns(FALSE)
    ELSE IF MinLengthOf(opts) < 1 THEN Returns(TRUE)
    ELSE IF Len(password.str) < MinLengthOf(opts) THEN Returns(FALSE)
    ELSE Returns(/\ Contains(password.str, UpperCase)
                 /\ Contains(password.str, LowerCase)
                 /\ Contains(password.str, Digit)
                 /\ Contains(password.str, SpecialChar))

\* A variant that also rejects a character outside the four classes.
IsValidPasswordOnlyClasses(password, opts) ==
    IF ~IsText(password) THEN Returns(FALSE)
    ELSE IF Len(password.str) < MinLengthOf(opts) THEN Returns(FALSE)
    ELSE Returns(/\ Contains(password.str, UpperCase)
                 /\ Contains(password.str, LowerCase)
                 /\ Contains(password.str, Digit)
                 /\ Contains(password.str, SpecialChar)
                 /\ \A i \in DOMAIN password.str :
                       password.str[i] \in
                           UpperCase \cup LowerCase \cup Digit \cup SpecialChar)

IsValidPassword(password, opts) ==
    IF ~IsText(password) THEN Returns(FALSE)
    ELSE IF Len(password.str) < MinLengthOf(opts) THEN Returns(FALSE)
    ELSE Returns(/\ Contains(password.str, UpperCase)
                 /\ Contains(password.str, LowerCase)
                 /\ Contains(password.str, Digit)
                 /\ Contains(password.str, SpecialChar))

----------------------------------------------------------------------------
(* isValidPhoneNumber *)

PhoneMinDigits == 7
PhoneMaxDigits == 15

\* phone.replace: every space, hyphen and parenthesis is deleted
PhoneClean(s) == RemoveAll(s, {" ", "-", "(", ")"})

\* A variant with no upper bound on the number of digits.
PhoneRegexTestNoUpper(s) ==
    LET digits == IF s # <<>> /\ s[1] = "+" THEN Tail(s) ELSE s
    IN  /\ Len(digits) >= PhoneMinDigits
        /\ \A i \in DOMAIN digits : digits[i] \in Digit

\* /^\+?[0-9]{7,15}$/.test(s)
PhoneRegexTest(s) ==
    LET digits == IF s # <<>> /\ s[1] = "+" THEN Tail(s) ELSE s
    IN  /\ Len(digits) >= PhoneMinDigits
        /\ Len(digits) <= PhoneMaxDigits
        /\ \A i \in DOMAIN digits : digits[i] \in Digit

IsValidPhoneNumber(phone) ==
    IF ~IsText(phone) THEN Returns(FALSE)
    ELSE Returns(PhoneRegexTest(PhoneClean(phone.str)))

----------------------------------------------------------------------------
(* isValidCreditCardNumber *)

\* A variant of the loop that keeps a doubled digit above 9 as it is.
RECURSIVE LuhnLoopNoReduce(_, _, _, _)
LuhnLoopNoReduce(s, i, sum, shouldDouble) ==
    IF i < 1 THEN sum
    ELSE LET digit   == ParseInt(s[i])
             doubled == IF shouldDouble THEN digit * 2 ELSE digit
         IN  LuhnLoopNoReduce(s, i - 1, sum + doubled, ~shouldDouble)

\* The loop of lines 88-96 from index i (1-based) down to the first digit.
RECURSIVE LuhnLoop(_, _, _, _)
LuhnLoop(s, i, sum, shouldDouble) ==
    IF i < 1 THEN sum
    ELSE LET digit   == ParseInt(s[i])
             doubled == IF shouldDouble
                        THEN (IF digit * 2 > 9 THEN digit * 2 - 9 ELSE digit * 2)
                        ELSE digit
         IN  LuhnLoop(s, i - 1, sum + doubled, ~shouldDouble)

\* A variant that starts the doubling at the rightmost digit.
LuhnSumDoubleFirst(s) == LuhnLoop(s, Len(s), 0, TRUE)

LuhnSum(s) == LuhnLoop(s, Len(s), 0, FALSE)

\* cardNumber.replace: every run of whitespace is deleted
CardSanitize(s) == RemoveAll(s, WhiteSpace)

IsValidCreditCardNumber(cardNumber) ==
    IF ~IsText(cardNumber) THEN Returns(FALSE)
    ELSE LET sanitized == CardSanitize(cardNumber.str)
         IN  IF ~AllIn(sanitized, Digit) THEN Returns(FALSE)
             ELSE Returns(LuhnSum(sanitized) % 10 = 0)

----------------------------------------------------------------------------
(* isValidUrl *)

(* The global URL class is the host's.  "whatwg" is the URL Standard's       *)
(* parser (Node, browsers, a polyfilled React Native): the constructor       *)
(* raises a TypeError on a text that is no absolute URL.  "reactnative" is   *)
(* React Native's built-in class: with no base the constructor keeps the     *)
(* text as it is and never raises, and reading protocol raises.              *)
UrlImpls == {"whatwg", "reactnative"}

Platforms == {"ios", "android", "web"}

\* The schemes whose URLs must have a host.
HostSchemes ==
    {<<"h","t","t","p">>, <<"h","t","t","p","s">>, <<"f","t","p">>,
     <<"w","s">>, <<"w","s","s">>}

\* Code points a host may not hold (the ones the model's alphabets reach).
ForbiddenHostChar == WhiteSpace \cup {"<", ">", "^", "|", "%", "[", "]"}

\* The index of the first character of s in set, 0 when there is none.
IndexOf(s, set) ==
    IF Contains(s, set)
    THEN CHOOSE i \in DOMAIN s : s[i] \in set /\ \A j \in 1..(i - 1) : s[j] \notin set
    ELSE 0

RECURSIVE SkipSlashes(_)
SkipSlashes(s) ==
    IF s # <<>> /\ s[1] \in {"/", "\\"} THEN SkipSlashes(Tail(s)) ELSE s

\* The host of what follows the scheme of a URL that must have one: the
\* authority without its credentials and its port.
HostOf(rest) ==
    LET r    == SkipSlashes(rest)
        stop == IndexOf(r, {"/", "\\", "?", "#"})
        auth == IF stop = 0 THEN r ELSE SubSeq(r, 1, stop - 1)
        ats  == {i \in DOMAIN auth : auth[i] = "@"}
        cred == IF ats = {} THEN 0 ELSE CHOOSE i \in ats : \A j \in ats : j <= i
        hp   == SubSeq(auth, cred + 1, Len(auth))
        port == IndexOf(hp, {":"})
    IN  IF port = 0 THEN hp ELSE SubSeq(hp, 1, port - 1)

\* The URL Standard's parser without a base: the scheme, then for the
\* schemes that need one a non-empty host of allowed code points.
ParseUrlWhatwg(text) ==
    LET s      == RemoveAll(Trim(text), {"\t", "\n", "\r"})
        colon  == IndexOf(s, {":"})
        scheme == ToLower(SubSeq(s, 1, colon - 1))
        rest   == SubSeq(s, colon + 1, Len(s))
        wellFormed ==
            /\ colon > 1
            /\ s[1] \in Alpha
            /\ \A i \in 2..(colon - 1) : s[i] \in Alpha \cup Digit \cup {"+", "-", "."}
            /\ scheme \in HostSchemes =>
                  /\ HostOf(rest) # <<>>
                  /\ ~Contains(HostOf(rest), ForbiddenHostChar)
    IN  IF wellFormed
        THEN [ok |-> TRUE,  protocol |-> scheme \o <<":">>]
        ELSE [ok |-> FALSE, protocol |-> <<>>]

\* The body of the try block: "throw" stands for a raised exception.
UrlTryBlock(text, os, impl) ==
    IF impl = "whatwg"
    THEN LET parsed == ParseUrlWhatwg(text)
         IN  IF ~parsed.ok THEN "throw"
             ELSE IF os = "ios" /\ parsed.protocol = <<>> THEN "false"
             ELSE "true"
    ELSE IF os = "ios" THEN "throw" ELSE "true"

\* A variant without the catch clause: the exception reaches the caller.
UrlNoCatch(tried) ==
    [verdict     |-> tried = "true",
     raised      |-> tried = "throw",
     constructed |-> "URL"]

\* try { ... } catch { return false; }
UrlCatch(tried) ==
    [verdict     |-> tried = "true",
     raised      |-> FALSE,
     constructed |-> "URL"]

IsValidUrl(url, os, impl) ==
    IF ~IsText(url) THEN Returns(FALSE)
    ELSE UrlCatch(UrlTryBlock(url.str, os, impl))

----------------------------------------------------------------------------
(* isValidIsoDate *)

(* new Date(text) on a date-only text.  A month outside 1..12 or a day      *)
(* outside 1..31 gives an invalid Date on every engine.  A day within       *)
(* 1..31 but beyond the month is engine-defined: "strict" engines           *)
(* (JavaScriptCore, SpiderMonkey) give an invalid Date, "lenient" ones (V8, *)
(* which runs the tests under Node) carry the days over into the next       *)
(* month.                                                                   *)
DateImpls == {"strict", "lenient"}

\* The pattern of isoRegex, one class per position, anchored at both ends.
IsoPattern ==
    <<Digit, Digit, Digit, Digit, {"-"}, Digit, Digit, {"-"}, Digit, Digit>>

\* A variant without the anchor at the end of the text.
IsoRegexTestOpenEnd(s) ==
    /\ Len(s) >= Len(IsoPattern)
    /\ \A i \in DOMAIN IsoPattern : s[i] \in IsoPattern[i]

\* isoRegex.test(s)
IsoRegexTest(s) ==
    /\ Len(s) = Len(IsoPattern)
    /\ \A i \in DOMAIN s : s[i] \in IsoPattern[i]

IsLeapYear(y) == (y % 4 = 0 /\ y % 100 # 0) \/ y % 400 = 0

DaysInMonth(y, m) ==
    IF m = 2 THEN (IF IsLeapYear(y) THEN 29 ELSE 28)
    ELSE IF m \in {4, 6, 9, 11} THEN 30
    ELSE 31

InvalidDate == [nan |-> TRUE, year |-> 0, month |-> 0, day |-> 0]

\* new Date(s), for a text s of the shape isoRegex accepts.
NewDate(s, impl) ==
    LET y == ToNumber(SubSeq(s, 1, 4))
        m == ToNumber(SubSeq(s, 6, 7))
        d == ToNumber(SubSeq(s, 9, 10))
    IN  IF m < 1 \/ m > 12 \/ d < 1 \/ d > 31 THEN InvalidDate
        ELSE IF d <= DaysInMonth(y, m)
             THEN [nan |-> FALSE, year |-> y, month |-> m, day |-> d]
        ELSE IF impl = "strict" THEN InvalidDate
        ELSE [nan |-> FALSE, year |-> y, month |-> m + 1, day |-> d - DaysInMonth(y, m)]

\* isNaN(date.getTime())
IsNaNTime(date) == date.nan

IsValidIsoDate(dateStr, impl) ==
    IF ~IsText(dateStr) THEN Returns(FALSE)
    ELSE IF ~IsoRegexTest(dateStr.str) THEN Returns(FALSE)
    ELSE [verdict     |-> ~IsNaNTime(NewDate(dateStr.str, impl)),
          raised      |-> FALSE,
          constructed |-> "Date"]

----------------------------------------------------------------------------
(* The calls.  A behaviour is one call: Init draws the arguments and the   *)
(* host, one action applies a predicate to them.                           *)

Call(name, outcome) ==
    /\ called = "none"
    /\ called' = name
    /\ via' = "direct"
    /\ result' = outcome
    /\ UNCHANGED <<input, options, platform, urlImpl, dateImpl, registry>>
    /\ UNCHANGED authVars

CallIsNonEmptyString == Call("isNonEmptyString", IsNonEmptyString(input))

CallIsValidEmail == Call("isValidEmail", IsValidEmail(input))

CallIsValidPassword == Call("isValidPassword", IsValidPassword(input, options))

CallIsValidPhoneNumber == Call("isValidPhoneNumber", IsValidPhoneNumber(input))

CallIsValidUrl == Call("isValidUrl", IsValidUrl(input, platform, urlImpl))

CallIsValidCreditCardNumber ==
    Call("isValidCreditCardNumber", IsValidCreditCardNumber(input))

CallIsValidIsoDate == Call("isValidIsoDate", IsValidIsoDate(input, dateImpl))

\* The function a name of the module is bound to, applied to the arguments.
Invoke(fn) ==
    CASE fn = "isNonEmptyString"        -> IsNonEmptyString(input)
      [] fn = "isValidEmail"            -> IsValidEmail(input)
      [] fn = "isValidPassword"         -> IsValidPassword(input, options)
      [] fn = "isValidPhoneNumber"      -> IsValidPhoneNumber(input)
      [] fn = "isValidUrl"              -> IsValidUrl(input, platform, urlImpl)
      [] fn = "isValidCreditCardNumber" -> IsValidCreditCardNumber(input)
      [] fn = "isValidIsoDate"          -> IsValidIsoDate(input, dateImpl)

\* A variant of the object with two of its functions exchanged.
ValidatorsCrossed ==
    [isNonEmptyString        |-> "isNonEmptyString",
     isValidEmail            |-> "isValidEmail",
     isValidPassword         |-> "isValidPassword",
     isValidPhoneNumber      |-> "isValidCreditCardNumber",
     isValidUrl              |-> "isValidUrl",
     isValidCreditCardNumber |-> "isValidPhoneNumber",
     isValidIsoDate          |-> "isValidIsoDate"]

\* export const Validators = { ... }: each name with the function of that name.
Validators ==
    [isNonEmptyString        |-> "isNonEmptyString",
     isValidEmail            |-> "isValidEmail",
     isValidPassword         |-> "isValidPassword",
     isValidPhoneNumber      |-> "isValidPhoneNumber",
     isValidUrl              |-> "isValidUrl",
     isValidCreditCardNumber |-> "isValidCreditCardNumber",
     isValidIsoDate          |-> "isValidIsoDate"]

\* Validators[name](input, options): the function found under a name of the
\* object is applied.
CallThroughRegistry ==
    \E name \in DOMAIN registry :
        /\ called = "none"
        /\ called' = name
        /\ via' = "registry"
        /\ result' = Invoke(registry[name])
        /\ UNCHANGED <<input, options, platform, urlImpl, dateImpl, registry>>
    /\ UNCHANGED authVars

\* No AuthProvider is rendered: the predicates are called on their own.
NoProvider ==
    /\ user = <<>>
    /\ loading = FALSE
    /\ error = <<>>
    /\ authToken = <<>>
    /\ storage = <<>>
    /\ pending = <<>>
    /\ calls = <<>>

\* The arguments and the host of a call, the call not yet made.
Start(inputs, opts, oses, urls, dates) ==
    /\ input \in inputs
    /\ options \in opts
    /\ platform \in oses
    /\ urlImpl \in urls
    /\ dateImpl \in dates
    /\ called = "none"
    /\ via = "none"
    /\ result = NoResult
    /\ registry = Validators
    /\ NoProvider

----------------------------------------------------------------------------
(* The texts of the examples *)

ExUserEmail    == <<"u","s","e","r","@","e","x","a","m","p","l","e",".","c","o","m">>
ExDoubleAt     == <<"u","s","e","r","@","@","e","x","a","m","p","l","e",".","c","o","m">>
ExNoTld        == <<"u","s","e","r","@","c","o","m">>
ExSpacedEmail  == <<"a"," ","b","@","e","x","a","m","p","l","e",".","c","o","m">>
ExPassword     == <<"A","b","c","d","e","f","1","!">>
ExWeakPassword == <<"a","b","c","d","e","f","g","h">>
ExPhone        == <<"+","1"," ","(","5","5","5",")"," ","1","2","3","-","4","5","6","7">>
ExShortPhone   == <<"1","2","3","4","5">>
ExHttpsUrl     == <<"h","t","t","p","s",":","/","/","e","x","a","m","p","l","e",".","c","o","m">>
ExNoSchemeUrl  == <<"e","x","a","m","p","l","e",".","c","o","m">>
ExEmptyHostUrl == <<"h","t","t","p",":","/","/">>
ExCardValid    == <<"4","5","3","2","0","1","5","1","1","2","8","3","0","3","6","6">>
ExCardInvalid  == <<"4","5","3","2","0","1","5","1","1","2","8","3","0","3","6","7">>
ExLeapDay      == <<"2","0","2","4","-","0","2","-","2","9">>
ExNoLeapDay    == <<"2","0","2","3","-","0","2","-","2","9">>
ExMonth13      == <<"2","0","2","4","-","1","3","-","0","1">>
ExBlank        == <<" "," "," ">>
ExPadded       == <<" "," ","a"," "," ">>

Examples ==
    {ExUserEmail, ExDoubleAt, ExNoTld, ExSpacedEmail, ExPassword, ExWeakPassword,
     ExPhone, ExShortPhone, ExHttpsUrl, ExNoSchemeUrl, ExEmptyHostUrl,
     ExCardValid, ExCardInvalid, ExLeapDay, ExNoLeapDay, ExMonth13, ExBlank,
     ExPadded, <<>>}

----------------------------------------------------------------------------
(* Spec: any of the seven predicates on any kind of value *)

MaxMinLength == 9

OptionValues ==
    {NoOptions, EmptyOptions} \cup {MinLength(n) : n \in (-1)..MaxMinLength}

Init ==
    Start(NonTextValues \cup {Text(s) : s \in Examples},
          OptionValues, Platforms, UrlImpls, DateImpls)

Next ==
    \/ CallIsNonEmptyString
    \/ CallIsValidEmail
    \/ CallIsValidPassword
    \/ CallIsValidPhoneNumber
    \/ CallIsValidUrl
    \/ CallIsValidCreditCardNumber
    \/ CallIsValidIsoDate
    \/ CallThroughRegistry

Spec == Init /\ [][Next]_vars

----------------------------------------------------------------------------
(* Bounded sets of texts *)

\* The texts over alphabet of length at most n.
TextsUpTo(alphabet, n) == UNION {[1..k -> alphabet] : k \in 0..n}

\* n copies of the character c.
Repeat(c, n) == [i \in 1..n |-> c]

\* The sum of f over its domain 1..n.
RECURSIVE SumTo(_, _)
SumTo(f, n) == IF n = 0 THEN 0 ELSE f[n] + SumTo(f, n - 1)

----------------------------------------------------------------------------
(* SpecCard: isValidCreditCardNumber on texts of digits, whitespace and    *)
(* other characters                                                        *)

MaxCardLen == 4

CardAlphabet == Digit \cup {" ", "\t", "x"}

CardInputs ==
    {Text(s) : s \in TextsUpTo(CardAlphabet, MaxCardLen) \cup {ExCardValid, ExCardInvalid}}

InitCard == Start(CardInputs, {NoOptions}, {"ios"}, {"whatwg"}, {"strict"})

NextCard == CallIsValidCreditCardNumber

SpecCard == InitCard /\ [][NextCard]_vars

----------------------------------------------------------------------------
(* SpecPassword: isValidPassword on texts of the four classes and of other *)
(* characters, with every kind of options                                  *)

MaxPwLen == 4
MaxPwPad == 5

PwAlphabet == {"A", "a", "1", "!", "~"}

\* A core text behind a run of a character of no class, and texts that
\* differ in their last character only.
PwTexts ==
    {Repeat("~", k) \o s : k \in 0..MaxPwPad, s \in TextsUpTo(PwAlphabet, MaxPwLen)}
    \cup {<<"Z", "z", "9", c>> : c \in SpecialChar \cup {" ", "-", "_", "~", "+"}}

InitPassword ==
    Start({Text(s) : s \in PwTexts}, OptionValues, {"ios"}, {"whatwg"}, {"strict"})

NextPassword == CallIsValidPassword

SpecPassword == InitPassword /\ [][NextPassword]_vars

----------------------------------------------------------------------------
(* SpecEmail: isValidEmail on short texts, on the examples, and on both    *)
(* with whitespace around them                                             *)

MaxEmailLen == 6

EmailAlphabet == {"a", "1", ".", "@", " ", "~"}

\* Runs of whitespace put before and after a text.
WhiteSpacePads == {<<>>, <<" ">>, <<"\t", "\n">>}

\* Addresses that differ in the first character of the local part only.
EmailFirstChars ==
    EmailLocalClass \cup {"~", "@", "(", ")", ",", ":", ";", "<", ">", "[", "]", "\\"}

EmailTexts ==
    TextsUpTo(EmailAlphabet, MaxEmailLen)
    \cup {pre \o e \o post :
             pre \in WhiteSpacePads, post \in WhiteSpacePads,
             e \in {ExUserEmail, ExDoubleAt, ExNoTld, ExSpacedEmail}}
    \cup {<<c, "Z", "@", "b", "-", "9", ".", "C", "o">> : c \in EmailFirstChars}

InitEmail ==
    Start({Text(s) : s \in EmailTexts}, {NoOptions}, {"ios"}, {"whatwg"}, {"strict"})

NextEmail == CallIsValidEmail

SpecEmail == InitEmail /\ [][NextEmail]_vars

----------------------------------------------------------------------------
(* SpecPhone: isValidPhoneNumber on a run of digits with a few characters  *)
(* before it and one after it                                              *)

MaxPhoneAffix == 2
MaxPhoneRun   == 17

PhoneAlphabet == {"+", "-", " ", "(", ")", "7", "x"}

PhoneTexts ==
    {pre \o Repeat("5", k) \o post :
        pre \in TextsUpTo(PhoneAlphabet, MaxPhoneAffix),
        k \in 0..MaxPhoneRun,
        post \in TextsUpTo(PhoneAlphabet, 1)}
    \cup {ExPhone, ExShortPhone}

InitPhone ==
    Start({Text(s) : s \in PhoneTexts}, {NoOptions}, {"ios"}, {"whatwg"}, {"strict"})

NextPhone == CallIsValidPhoneNumber

SpecPhone == InitPhone /\ [][NextPhone]_vars

----------------------------------------------------------------------------
(* SpecDate: isValidIsoDate on year, month and day fields joined by        *)
(* separators, with or without text around them, on both kinds of engine   *)

MaxMonthField == 13
MaxDayField   == 32

TwoDigits(n) == <<DigitSeq[(n \div 10) + 1], DigitSeq[(n % 10) + 1]>>

FourDigits(n) == TwoDigits(n \div 100) \o TwoDigits(n % 100)

YearFields  == {FourDigits(y) : y \in {1900, 2000, 2023, 2024}} \cup {<<"2", "0", "2">>}
MonthFields == {TwoDigits(m) : m \in 0..MaxMonthField} \cup {<<"2">>, <<"1", "x">>}
DayFields   == {TwoDigits(d) : d \in 0..MaxDayField} \cup {<<"9">>, <<" ", "1">>}

DateSeparators == {"-", "/"}
DatePrefixes   == {<<>>, <<" ">>}
DateSuffixes   == {<<>>, <<" ">>, <<"\n">>, <<"1">>, <<"T", "0", "0", ":", "0", "0">>}

DateTexts ==
    {pre \o y \o <<s1>> \o m \o <<s2>> \o d \o post :
        pre \in DatePrefixes, y \in YearFields, s1 \in DateSeparators,
        m \in MonthFields, s2 \in DateSeparators, d \in DayFields,
        post \in DateSuffixes}

InitDate ==
    Start({Text(s) : s \in DateTexts}, {NoOptions}, {"ios"}, {"whatwg"}, DateImpls)

NextDate == CallIsValidIsoDate

SpecDate == InitDate /\ [][NextDate]_vars

----------------------------------------------------------------------------
(* SpecNonEmpty: isNonEmptyString on texts of whitespace and other         *)
(* characters, and on values that are no text                              *)

MaxPlainLen == 5

PlainAlphabet == {" ", "\t", "\n", "a", "0"}

PlainInputs ==
    NonTextValues
    \cup {Text(s) : s \in TextsUpTo(PlainAlphabet, MaxPlainLen) \cup {ExBlank, ExPadded}}

InitNonEmpty == Start(PlainInputs, {NoOptions}, {"ios"}, {"whatwg"}, {"strict"})

NextNonEmpty == CallIsNonEmptyString

SpecNonEmpty == InitNonEmpty /\ [][NextNonEmpty]_vars

----------------------------------------------------------------------------
(* SpecAuth: the AuthProvider of src/state/AuthContext.tsx with the token   *)
(* of src/services/api.ts and the entry of AsyncStorage under the user key. *)
(* An async function runs without interruption from one await to the next,  *)
(* so each action is one such stretch: the start of a call up to its first  *)
(* await, the arrival of the reply to its request, the completion of its    *)
(* storage operation.  A value that may be null is a sequence of at most    *)
(* one element.  AsyncStorage completes its operations in the order issued, *)
(* and none of them fails.  signIn, signUp and signOut are what useAuth     *)
(* hands to any component, so a call may start in any state.                *)

MaxCalls == 3

\* The records the server answers a login or a registration with.
John == [id |-> "1", name |-> "John Doe", email |-> "john@example.com",
         token |-> "abcd1234"]

Jane == [id |-> "2", name |-> "Jane Roe", email |-> "jane@example.com",
         token |-> "efgh5678"]

ServerUsers == {John, Jane}

\* The messages of the errors request raises: the one of the reply, or the
\* fallback.
ErrorMessages == {"Invalid credentials", "Network request failed"}

\* JSON.stringify of a user: the keys and the values in the order of the
\* object literal.
JsonStringify(u) ==
    <<"id", u.id, "name", u.name, "email", u.email, "token", u.token>>

RECURSIVE JsonValueOf(_, _)
JsonValueOf(json, key) ==
    IF Len(json) < 2 THEN ""
    ELSE IF json[1] = key THEN json[2]
    ELSE JsonValueOf(SubSeq(json, 3, Len(json)), key)

\* JSON.parse of the stored text.
JsonParse(json) ==
    [id    |-> JsonValueOf(json, "id"),
     name  |-> JsonValueOf(json, "name"),
     email |-> JsonValueOf(json, "email"),
     token |-> JsonValueOf(json, "token")]

\* A call that has been started.  pc is where it waits: "request" for the
\* reply of the server, "persist" for AsyncStorage, "done" once it has
\* returned.  initial and onScreen record the state it was started in.
NewCall(name, at, tok) ==
    [op       |-> name,
     pc       |-> at,
     token    |-> tok,
     data     |-> <<>>,
     initial  |-> user = <<>> /\ loading = FALSE /\ error = <<>>,
     onScreen |-> IF name = "signOut" THEN user # <<>>
                  ELSE user = <<>> /\ loading = FALSE]

\* The operations of AsyncStorage on the user key.
GetItem == [kind |-> "get", call |-> 0, value |-> <<>>]

SetItem(i, json) == [kind |-> "set", call |-> i, value |-> json]

RemoveItem(i) == [kind |-> "remove", call |-> i, value |-> <<>>]

\* persistUser(userData) up to its await.
PersistUser(i, userData) ==
    IF userData # <<>>
    THEN Append(pending, SetItem(i, JsonStringify(userData[1])))
    ELSE Append(pending, RemoveItem(i))

\* signIn and signUp up to the await of request: they differ in the endpoint
\* and in the body of the request only.
Authenticate(name) ==
    /\ Len(calls) < MaxCalls
    /\ loading' = TRUE
    /\ error' = <<>>
    /\ calls' = Append(calls, NewCall(name, "request", <<>>))
    /\ UNCHANGED <<user, authToken, storage, pending>>

SignIn == Authenticate("signIn") /\ UNCHANGED validatorVars

SignUp == Authenticate("signUp") /\ UNCHANGED validatorVars

\* signOut up to its first await: the one of request when a user with a
\* token is signed in, else the one of persistUser in the finally block.
SignOut ==
    /\ Len(calls) < MaxCalls
    /\ loading' = TRUE
    /\ error' = <<>>
    /\ IF user # <<>> /\ user[1].token # ""
       THEN /\ calls' = Append(calls, NewCall("signOut", "request", <<user[1].token>>))
            /\ UNCHANGED <<user, authToken, pending>>
       ELSE /\ user' = <<>>
            /\ authToken' = <<>>
            /\ pending' = PersistUser(Len(calls) + 1, <<>>)
            /\ calls' = Append(calls, NewCall("signOut", "persist", <<>>))
    /\ UNCHANGED storage
    /\ UNCHANGED validatorVars

\* The reply to /auth/login or /auth/register is ok: the try block goes on
\* up to the await of persistUser.
AuthenticateSucceeds ==
    \E i \in DOMAIN calls, data \in ServerUsers :
        /\ calls[i].op \in {"signIn", "signUp"}
        /\ calls[i].pc = "request"
        /\ user' = <<data>>
        /\ authToken' = <<data.token>>
        /\ pending' = PersistUser(i, <<data>>)
        /\ calls' = [calls EXCEPT ![i].pc = "persist", ![i].data = <<data>>]
        /\ UNCHANGED <<loading, error, storage>>
        /\ UNCHANGED validatorVars

\* request raises: the catch block sets the error, the finally block ends
\* the call.
AuthenticateFails ==
    \E i \in DOMAIN calls, message \in ErrorMessages :
        /\ calls[i].op \in {"signIn", "signUp"}
        /\ calls[i].pc = "request"
        /\ error' = <<message>>
        /\ loading' = FALSE
        /\ calls' = [calls EXCEPT ![i].pc = "done"]
        /\ UNCHANGED <<user, authToken, storage, pending>>
        /\ UNCHANGED validatorVars

\* The request of /auth/logout returns or raises: either way the finally
\* block runs up to the await of persistUser.
LogoutSettles ==
    \E i \in DOMAIN calls :
        /\ calls[i].op = "signOut"
        /\ calls[i].pc = "request"
        /\ user' = <<>>
        /\ authToken' = <<>>
        /\ pending' = PersistUser(i, <<>>)
        /\ calls' = [calls EXCEPT ![i].pc = "persist"]
        /\ UNCHANGED <<loading, error, storage>>
        /\ UNCHANGED validatorVars

\* setItem or removeItem completes: the call that awaits persistUser sets
\* loading to false and returns.
PersistCompletes ==
    /\ pending # <<>>
    /\ Head(pending).kind \in {"set", "remove"}
    /\ storage' = IF Head(pending).kind = "set" THEN <<Head(pending).value>> ELSE <<>>
    /\ pending' = Tail(pending)
    /\ loading' = FALSE
    /\ calls' = [calls EXCEPT ![Head(pending).call].pc = "done"]
    /\ UNCHANGED <<user, error, authToken>>
    /\ UNCHANGED validatorVars

\* getItem completes: loadPersistedUser restores the stored user, if any.
LoadPersistedUser ==
    /\ pending # <<>>
    /\ Head(pending).kind = "get"
    /\ pending' = Tail(pending)
    /\ IF storage # <<>>
       THEN /\ user' = <<JsonParse(storage[1])>>
            /\ authToken' = <<JsonParse(storage[1]).token>>
       ELSE UNCHANGED <<user, authToken>>
    /\ UNCHANGED <<loading, error, storage, calls>>
    /\ UNCHANGED validatorVars

\* The provider has been rendered and its effect has called
\* loadPersistedUser, which awaits getItem.  The storage is empty or holds
\* the user of an earlier session.
InitAuth ==
    /\ input = Text(ExUserEmail)
    /\ options = NoOptions
    /\ platform = "ios"
    /\ urlImpl = "whatwg"
    /\ dateImpl = "strict"
    /\ called = "none"
    /\ via = "none"
    /\ result = NoResult
    /\ registry = Validators
    /\ user = <<>>
    /\ loading = FALSE
    /\ error = <<>>
    /\ authToken = <<>>
    /\ storage \in {<<>>, <<JsonStringify(Jane)>>}
    /\ pending = <<GetItem>>
    /\ calls = <<>>

NextAuth ==
    \/ SignIn
    \/ SignUp
    \/ SignOut
    \/ AuthenticateSucceeds
    \/ AuthenticateFails
    \/ LogoutSettles
    \/ PersistCompletes
    \/ LoadPersistedUser

SpecAuth == InitAuth /\ [][NextAuth]_vars

----------------------------------------------------------------------------
(* Properties of Spec *)

Predicates ==
    {"isNonEmptyString", "isValidEmail", "isValidPassword", "isValidPhoneNumber",
     "isValidUrl", "isValidCreditCardNumber", "isValidIsoDate"}

\* C1: for every input that is not text (null, undefined, a number, a
\* boolean, an object, a list) each of the seven predicates, isValidPassword
\* with any options, returns false.
C1_NonTextIsRejected ==
    (called \in Predicates /\ input.kind # "string") => result = Returns(FALSE)

\* A list has been handed to isValidPassword with a minLength and rejected.
C1_Witness ==
    /\ called = "isValidPassword"
    /\ input = ListOf1
    /\ options = MinLength(0)
    /\ result.verdict = FALSE

\* C2: no predicate raises, whatever the input and the options: every call
\* ends with a boolean verdict, and a failure to parse the text as a URL (or
\* any other exception inside the try block) becomes the verdict false.
C2_NeverRaises ==
    called \in Predicates =>
        /\ result.raised = FALSE
        /\ result.verdict \in BOOLEAN
        /\ (/\ called = "isValidUrl"
            /\ input.kind = "string"
            /\ UrlTryBlock(input.str, platform, urlImpl) = "throw")
               => result.verdict = FALSE

\* isValidUrl has been called on a text the URL constructor raised on, and
\* has returned false.
C2_Witness ==
    /\ called = "isValidUrl"
    /\ input = Text(ExNoSchemeUrl)
    /\ urlImpl = "whatwg"
    /\ ~ParseUrlWhatwg(input.str).ok
    /\ result.verdict = FALSE
    /\ result.raised = FALSE

----------------------------------------------------------------------------
(* Properties of SpecCard *)

\* The Luhn sum as the claim words it: positions counted from the right,
\* the rightmost digit taken as it is, every second one from there doubled.
LuhnReference(s) ==
    SumTo([i \in 1..Len(s) |->
              LET d == ToNumber(<<s[Len(s) + 1 - i]>>)
              IN  IF i % 2 = 1 THEN d
                  ELSE IF 2 * d > 9 THEN 2 * d - 9 ELSE 2 * d],
          Len(s))

\* C3: isValidCreditCardNumber(text) is true exactly when the text without
\* its whitespace is non-empty, all decimal digits, and has a Luhn sum
\* divisible by 10; 4532015112830366 is valid and 4532015112830367 is not.
C3_LuhnVerdict ==
    (called = "isValidCreditCardNumber" /\ input.kind = "string") =>
        LET rest == SelectSeq(input.str, LAMBDA c : c \notin WhiteSpace)
        IN  /\ result.verdict =
                  (/\ rest # <<>>
                   /\ \A i \in DOMAIN rest : rest[i] \in Digit
                   /\ LuhnReference(rest) % 10 = 0)
            /\ input.str = ExCardValid => result.verdict = TRUE
            /\ input.str = ExCardInvalid => result.verdict = FALSE

\* A number with whitespace in it whose second digit from the right doubles
\* beyond 9 has been accepted.
C3_Witness ==
    /\ called = "isValidCreditCardNumber"
    /\ input = Text(<<"5", " ", "9", "\t">>)
    /\ result.verdict = TRUE

----------------------------------------------------------------------------
(* Properties of SpecPassword *)

\* The special characters as the claim lists them.
C4_SpecialSet ==
    {"!", "@", "#", "$", "%", "^", "&", "*", "(", ")", ",", ".", "?", "\"",
     ":", "{", "}", "|", "<", ">"}

\* C4: for a text, isValidPassword is true exactly when the length is at
\* least minLength (8 when options or minLength is absent) and the text has
\* an uppercase letter, a lowercase letter, a digit and a special character.
C4_PasswordPolicy ==
    (called = "isValidPassword" /\ input.kind = "string") =>
        LET p   == input.str
            min == IF options.kind = "given" THEN options.minLength ELSE 8
        IN  result.verdict =
               (/\ Len(p) >= min
                /\ \E i \in DOMAIN p : p[i] \in UpperCase
                /\ \E i \in DOMAIN p : p[i] \in LowerCase
                /\ \E i \in DOMAIN p : p[i] \in Digit
                /\ \E i \in DOMAIN p : p[i] \in C4_SpecialSet)

\* A password of exactly eight characters with all four classes has been
\* accepted under the default minLength.
C4_Witness ==
    /\ called = "isValidPassword"
    /\ options = NoOptions
    /\ input = Text(<<"~", "~", "~", "~", "A", "a", "1", "!">>)
    /\ result.verdict = TRUE

\* C5: with a zero or negative minLength nothing is raised and the verdict
\* for every text is the verdict under minLength clamped to 1.
C5_NonPositiveMinLengthIsClamped ==
    (/\ called = "isValidPassword"
     /\ input.kind = "string"
     /\ options.kind = "given"
     /\ options.minLength <= 0) =>
        /\ result.raised = FALSE
        /\ result.verdict = IsValidPassword(input, MinLength(1)).verdict

\* The empty text has been rejected under a negative minLength.
C5_Witness ==
    /\ called = "isValidPassword"
    /\ options = MinLength(-1)
    /\ input = Text(<<>>)
    /\ result.verdict = FALSE
    /\ result.raised = FALSE

----------------------------------------------------------------------------
(* Properties of SpecEmail *)

\* The text between its first and its last character that is no whitespace.
Stripped(s) ==
    LET keep == {i \in DOMAIN s : s[i] \notin WhiteSpace}
    IN  IF keep = {} THEN <<>>
        ELSE SubSeq(s, CHOOSE i \in keep : \A j \in keep : i <= j,
                       CHOOSE i \in keep : \A j \in keep : i >= j)

\* The pieces of s between the occurrences of the character c.
RECURSIVE SplitOn(_, _)
SplitOn(s, c) ==
    IF \A i \in DOMAIN s : s[i] # c THEN <<s>>
    ELSE LET k == CHOOSE i \in DOMAIN s : s[i] = c /\ \A j \in 1..(i - 1) : s[j] # c
         IN  <<SubSeq(s, 1, k - 1)>> \o SplitOn(SubSeq(s, k + 1, Len(s)), c)

\* The characters the claim allows in the local part.
C6_LocalSet ==
    Alpha \cup Digit \cup
    {".", "!", "#", "$", "%", "&", "'", "*", "+", "/", "=", "?", "^", "_", Backtick,
     "{", "|", "}", "~", "-", " "}

\* An address as the claim describes it: a local part of allowed characters,
\* one @, dot-terminated labels and a top-level label of two letters or more.
C6_WellFormed(s) ==
    LET parts  == SplitOn(s, "@")
        local  == parts[1]
        labels == SplitOn(parts[2], ".")
    IN  /\ Len(parts) = 2
        /\ local # <<>>
        /\ \A i \in DOMAIN local : local[i] \in C6_LocalSet
        /\ Len(labels) >= 2
        /\ \A n \in 1..(Len(labels) - 1) :
              /\ labels[n] # <<>>
              /\ \A i \in DOMAIN labels[n] : labels[n][i] \in Alpha \cup Digit \cup {"-"}
        /\ Len(labels[Len(labels)]) >= 2
        /\ \A i \in DOMAIN labels[Len(labels)] : labels[Len(labels)][i] \in Alpha

\* C6: for a text, isValidEmail is true exactly when the trimmed text is a
\* local part of one or more characters of A-Z a-z 0-9 . ! # $ % & ' * + / =
\* ? ^ _ ` { | } ~ - and space, one @, one or more dot-terminated labels of
\* A-Z a-z 0-9 -, and a top-level label of at least two letters.
C6_EmailPattern ==
    (called = "isValidEmail" /\ input.kind = "string") =>
        result.verdict = C6_WellFormed(Stripped(input.str))

\* s with the character c put in after position i.
InsertAfter(s, i, c) == SubSeq(s, 1, i) \o <<c>> \o SubSeq(s, i + 1, Len(s))

----------------------------------------------------------------------------
(* Properties of SpecPhone *)

\* C8: for a text, isValidPhoneNumber is true exactly when the text without
\* its spaces, hyphens and parentheses is an optional single leading + and
\* then 7 to 15 decimal digits; 6 and 16 digits are rejected, 7 and 15
\* accepted, and a + elsewhere is rejected.
C8_PhonePattern ==
    (called = "isValidPhoneNumber" /\ input.kind = "string") =>
        LET rest   == SelectSeq(input.str, LAMBDA c : c \notin {" ", "-", "(", ")"})
            pluses == {i \in DOMAIN rest : rest[i] = "+"}
            digits == {i \in DOMAIN rest : rest[i] \in Digit}
        IN  /\ result.verdict =
                  (/\ pluses \subseteq {1}
                   /\ pluses \cup digits = DOMAIN rest
                   /\ Cardinality(digits) >= 7
                   /\ Cardinality(digits) <= 15)
            /\ input.str = Repeat("5", 6)  => result.verdict = FALSE
            /\ input.str = Repeat("5", 7)  => result.verdict = TRUE
            /\ input.str = Repeat("5", 15) => result.verdict = TRUE
            /\ input.str = Repeat("5", 16) => result.verdict = FALSE
            /\ input.str = ExPhone         => result.verdict = TRUE
            /\ input.str = ExShortPhone    => result.verdict = FALSE

\* A number of fifteen digits behind a + and an opening parenthesis, with a
\* hyphen at its end, has been accepted.
C8_Witness ==
    /\ called = "isValidPhoneNumber"
    /\ input = Text(<<"+", "(">> \o Repeat("5", 15) \o <<"-">>)
    /\ result.verdict = TRUE

----------------------------------------------------------------------------
(* Properties of SpecDate *)

\* Four digits, a hyphen, two digits, a hyphen, two digits, and no more.
IsoShape(s) ==
    /\ Len(s) = 10
    /\ s[5] = "-"
    /\ s[8] = "-"
    /\ \A i \in {1, 2, 3, 4, 6, 7, 9, 10} : s[i] \in Digit

\* The lengths of the months of year y.
MonthLengths(y) ==
    <<31, IF y % 400 = 0 \/ (y % 4 = 0 /\ y % 100 # 0) THEN 29 ELSE 28,
      31, 30, 31, 30, 31, 31, 30, 31, 30, 31>>

\* The well-shaped text s names a day of the calendar.
RealDate(s) ==
    LET y == ToNumber(SubSeq(s, 1, 4))
        m == ToNumber(SubSeq(s, 6, 7))
        d == ToNumber(SubSeq(s, 9, 10))
    IN  /\ m \in 1..12
        /\ d >= 1
        /\ d <= MonthLengths(y)[m]

\* C9: isValidIsoDate rejects every well-shaped text that names no real
\* calendar date (month 00 or above 12, day 00 or above 31, a day beyond the
\* month's length, February 29 of a non-leap year) and accepts February 29
\* of a leap year.
C9_OnlyRealDates ==
    (called = "isValidIsoDate" /\ input.kind = "string" /\ IsoShape(input.str)) =>
        /\ ~RealDate(input.str) => result.verdict = FALSE
        /\ input.str = ExLeapDay => result.verdict = TRUE
        /\ input.str = ExNoLeapDay => result.verdict = FALSE

\* C10: isValidIsoDate returns false, without constructing a Date, for every
\* text that is not exactly four digits, hyphen, two digits, hyphen, two
\* digits; a true verdict means the text has that shape and the Date made of
\* it passed the check of line 109.
C10_ShapeFirst ==
    (called = "isValidIsoDate" /\ input.kind = "string") =>
        /\ ~IsoShape(input.str) => result = Returns(FALSE)
        /\ result.verdict = TRUE =>
              /\ IsoShape(input.str)
              /\ result.constructed = "Date"
              /\ ~NewDate(input.str, dateImpl).nan

\* A real date followed by a line feed has been rejected with no Date made.
C10_Witness ==
    /\ called = "isValidIsoDate"
    /\ input = Text(ExLeapDay \o <<"\n">>)
    /\ result = Returns(FALSE)

----------------------------------------------------------------------------
(* Properties of SpecNonEmpty *)

\* C11: isNonEmptyString(value) is true exactly when the value is a text
\* with a character left after its leading and trailing whitespace is
\* removed, that is, a text with a character that is no whitespace; three
\* spaces give false and an a between spaces gives true.
C11_NonEmptyAfterTrim ==
    called = "isNonEmptyString" =>
        /\ result.verdict =
              (/\ input.kind = "string"
               /\ \E i \in DOMAIN input.str : input.str[i] \notin WhiteSpace)
        /\ result.verdict = (input.kind = "string" /\ Stripped(input.str) # <<>>)
        /\ input = Text(ExBlank) => result.verdict = FALSE
        /\ input = Text(ExPadded) => result.verdict = TRUE

\* A text of whitespace only has been rejected.
C11_Witness ==
    /\ called = "isNonEmptyString"
    /\ input = Text(<<" ", "\t", "\n">>)
    /\ result.verdict = FALSE

----------------------------------------------------------------------------
(* More properties of SpecPassword *)

\* A character that is not ASCII.
NonAscii == "U+00E9"

\* C12: a password is never rejected for a character outside the four
\* classes: if p is accepted under a minLength, p with any character put in
\* at any position is accepted under the same minLength.
C12_InsertionKeepsAccepted ==
    (called = "isValidPassword" /\ input.kind = "string" /\ result.verdict = TRUE) =>
        \A c \in PwAlphabet \cup {" ", "\t", "-", NonAscii} :
            \A i \in 0..Len(input.str) :
                IsValidPassword(Text(InsertAfter(input.str, i, c)), options).verdict = TRUE

\* A password with characters of no class before its four classes has been
\* accepted.
C12_Witness ==
    /\ called = "isValidPassword"
    /\ input = Text(<<"~", "~", "~", "A", "a", "1", "!">>)
    /\ options = MinLength(7)
    /\ result.verdict = TRUE

----------------------------------------------------------------------------
(* More properties of SpecCard *)

\* C16: the Luhn check detects every single-digit error: for every text s of
\* digits (the empty one too) exactly one of s0 .. s9 is accepted, and an
\* accepted number with any one digit replaced by another is rejected.
C16_SingleDigitErrors ==
    (/\ called = "isValidCreditCardNumber"
     /\ input.kind = "string"
     /\ \A i \in DOMAIN input.str : input.str[i] \in Digit) =>
        LET s == input.str
        IN  /\ Cardinality({d \in Digit :
                   IsValidCreditCardNumber(Text(s \o <<d>>)).verdict}) = 1
            /\ result.verdict = TRUE =>
                  \A i \in DOMAIN s : \A d \in Digit \ {s[i]} :
                      ~IsValidCreditCardNumber(Text([s EXCEPT ![i] = d])).verdict

\* An accepted number of four digits, each of whose digits could be replaced.
C16_Witness ==
    /\ called = "isValidCreditCardNumber"
    /\ input = Text(<<"9", "5", "6", "3">>)
    /\ result.verdict = TRUE

----------------------------------------------------------------------------
(* More properties of Spec *)

\* The predicate exported under a name, applied on its own.
Standalone(name) ==
    CASE name = "isNonEmptyString"        -> IsNonEmptyString(input)
      [] name = "isValidEmail"            -> IsValidEmail(input)
      [] name = "isValidPassword"         -> IsValidPassword(input, options)
      [] name = "isValidPhoneNumber"      -> IsValidPhoneNumber(input)
      [] name = "isValidUrl"              -> IsValidUrl(input, platform, urlImpl)
      [] name = "isValidCreditCardNumber" -> IsValidCreditCardNumber(input)
      [] name = "isValidIsoDate"          -> IsValidIsoDate(input, dateImpl)

\* C13: the registry Validators maps exactly the seven names, the function
\* found under a name returns what the standalone predicate of that name
\* returns for every input and options, and no call changes the registry.
C13_RegistryIsTheSeven ==
    /\ DOMAIN registry = Predicates
    /\ via = "registry" => result = Standalone(called)
    /\ called # "none" =>
          \A name \in Predicates : Invoke(registry[name]) = Standalone(name)

\* isValidPhoneNumber has been found in the registry and has accepted the
\* example number.
C13_Witness ==
    /\ via = "registry"
    /\ called = "isValidPhoneNumber"
    /\ input = Text(ExPhone)
    /\ result.verdict = TRUE

\* The text starts with a scheme: a letter, then letters, digits, plus,
\* minus or dot, then a colon.
HasScheme(text) ==
    LET s     == RemoveAll(Trim(text), {"\t", "\n", "\r"})
        colon == IndexOf(s, {":"})
    IN  /\ colon > 1
        /\ s[1] \in Alpha
        /\ \A i \in 2..(colon - 1) : s[i] \in Alpha \cup Digit \cup {"+", "-", "."}

\* new URL(text) has returned an object rather than raised.
ParsedSuccessfully(text, impl) ==
    IF impl = "whatwg" THEN ParseUrlWhatwg(text).ok ELSE TRUE

\* C14: in isValidUrl, a text that is parsed successfully into a URL without
\* a scheme is rejected on iOS and accepted on every other platform, and a
\* text that is parsed into a URL with a scheme is accepted on every platform.
C14_SchemeByPlatform ==
    (called = "isValidUrl" /\ IsText(input)
        /\ ParsedSuccessfully(input.str, urlImpl)) =>
        IF HasScheme(input.str)
        THEN result.verdict = TRUE
        ELSE result.verdict = (platform # "ios")

\* C17: the verdict of isValidUrl is the same on every platform, and the
\* branch that rejects on iOS alone is never taken.
C17_PlatformIndependent ==
    (called = "isValidUrl" /\ IsText(input)) =>
        /\ UrlTryBlock(input.str, "ios", urlImpl) # "false"
        /\ \A os \in Platforms :
              IsValidUrl(input, os, urlImpl).verdict = result.verdict

----------------------------------------------------------------------------
(* Properties of SpecAuth *)

\* Some call has been started and has not yet returned.
InFlight == \E i \in DOMAIN calls : calls[i].pc # "done"

\* Call i returns in this step.
Completes(i) == calls[i].pc # "done" /\ calls'[i].pc = "done"

\* C15: when signIn is called in the initial state (user null, loading false,
\* error null) and its login request succeeds, then in the state in which
\* it returns the user is the record of the server, the storage holds that
\* record under the user key, the token of api.ts is the token of the record
\* and loading is false.
C15_SignInFromInitialState ==
    [][\A i \in DOMAIN calls :
          (/\ calls[i].op = "signIn"
           /\ calls[i].initial
           /\ calls[i].data # <<>>
           /\ Completes(i)) =>
              /\ user' = calls[i].data
              /\ storage' = <<JsonStringify(calls[i].data[1])>>
              /\ authToken' = <<calls[i].data[1].token>>
              /\ loading' = FALSE]_vars

\* C18: once every operation has completed and the call started last was a
\* signOut, the user is null, the token of api.ts is null, the entry under
\* the user key is removed and loading is false.
C18_SignedOutAtRest ==
    (/\ calls # <<>>
     /\ calls[Len(calls)].op = "signOut"
     /\ ~InFlight
     /\ pending = <<>>) =>
        /\ user = <<>>
        /\ authToken = <<>>
        /\ storage = <<>>
        /\ loading = FALSE

\* C19: loading is true exactly while a signIn, signUp or signOut call is in
\* flight.
C19_LoadingWhileInFlight == loading = InFlight

====
